---- MODULE Spec2Model ----
(***************************************************************************)
(* cargo-leptos, src/main.rs: the message bus, the shutdown flag, the      *)
(* interrupt task, the build pipeline and the watch loop.                  *)
(*                                                                         *)
(* The bus is tokio's broadcast channel.  It is modelled as the sequence   *)
(* `sent` of every value the channel accepted, of which the channel        *)
(* retains the last Capacity; a receiver is a cursor into that sequence.   *)
(* (tokio may round the capacity up to a power of two; the model keeps the *)
(* capacity the program asks for, which is what the API promises.)         *)
(***************************************************************************)
EXTENDS Integers, Sequences, FiniteSets

\* ---------------------------------------------------------------- bounds
\* Number of events the filesystem watcher publishes in one run.
MaxEvents == 3
\* Number of times the spawned server process ends on its own.
MaxExits == 1
\* Number of style events of one burst (BurstSpec).
MaxBurst == 11

\* ------------------------------------------------------ program constants
\* broadcast::channel(10)
Capacity == 10

\* enum Msg; the payloads of AssetsChanged and Reload are not inspected by
\* any comparison of main.rs (Reload is always "reload").
Msg == {"ShutDown", "SrcChanged", "AssetsChanged", "StyleChanged", "Reload"}

\* enum Commands, the three that run the pipeline.
Commands == {"Build", "Serve", "Watch"}

\* What the filesystem watcher classifies changes into.
WatcherMsgs == {"SrcChanged", "AssetsChanged", "StyleChanged"}

VARIABLES
    cmd,            \* args.command
    csr,            \* config.cli.csr
    pc,             \* position of the main task
    copy_assets,    \* the argument of the running build()
    outcome,        \* result of the last build(): "none", "Ok", "Err"
    SHUTDOWN,       \* the SHUTDOWN flag
    sig,            \* position of the interrupt task
    sent,           \* MSG_BUS: every value the channel accepted, in order
    rx,             \* the main task's receiver: [live, start, next, lagged]
                    \* (lagged: recv() has returned Lagged)
    rxGot,          \* positions of `sent` that receiver returned, in order
    srv,            \* the reload server holds a receiver
    watching,       \* the filesystem watcher is running
    staticSrv,      \* the static bundle server is running
    artifacts,      \* number of running server processes
    events,         \* watcher events published so far
    exits,          \* server process exits so far
    srcPending,     \* a SrcChanged was published and no build started since
    sawShutDown,    \* the main task received ShutDown from the bus
    srcSeen,        \* it received SrcChanged since the last build() returned
    reloadsSinceEnd,\* Reload publishes since the last build() returned
    ran,            \* stages invoked by the build() running or just returned
    cause           \* the stage of that build() that reported failure

vars == <<cmd, csr, pc, copy_assets, outcome, SHUTDOWN, sig, sent, rx, rxGot,
          srv, watching, staticSrv, artifacts, events, exits, srcPending,
          sawShutDown, srcSeen, reloadsSinceEnd, ran, cause>>

\* Variables of the bus and of what is recorded about it.
busVars == <<sent, srcPending, reloadsSinceEnd>>
\* The main task's receiver and what is recorded about it.
rxVars == <<rx, rxGot>>
\* What is recorded of the values the main task received.
seenVars == <<sawShutDown, srcSeen>>
\* The configuration, fixed once main has read it.
cfgVars == <<cmd, csr>>
\* What is recorded of the stages of a pipeline run.
runVars == <<ran, cause>>

\* ------------------------------------------------------------ message bus
NoRx == [live |-> FALSE, start |-> 0, next |-> 0, lagged |-> FALSE]

\* A subscribe that starts at the oldest value the channel still holds.
SubscribeReplay ==
    [live |-> TRUE, start |-> Len(sent), lagged |-> FALSE,
     next |-> IF Len(sent) > Capacity THEN Len(sent) - Capacity ELSE 0]

\* broadcast::Sender::subscribe: the new receiver sees what is sent after it.
Subscribe ==
    [live |-> TRUE, start |-> Len(sent), next |-> Len(sent), lagged |-> FALSE]

\* broadcast::Sender::receiver_count
ReceiverCount == (IF rx.live THEN 1 ELSE 0) + (IF srv THEN 1 ELSE 0)

\* A receiver whose next value was overwritten: recv() yields Lagged.
Lagging(r) == Len(sent) - r.next > Capacity

\* recv() has something to return.
Ready(r) == r.live /\ r.next < Len(sent)

\* What recv() returns: Lagged, or the value at the cursor.
RecvResult(r) == IF Lagging(r) THEN "Lagged" ELSE sent[r.next + 1]

\* The cursor after recv(): past the value, or at the oldest retained one.
RecvNext(r) == IF Lagging(r) THEN Len(sent) - Capacity ELSE r.next + 1

\* The receiver after recv().
Recv(r) ==
    [r EXCEPT !.next = RecvNext(r), !.lagged = r.lagged \/ Lagging(r)]

\* The positions a receiver has returned, after recv().
Got(r, got) == IF Lagging(r) THEN got ELSE Append(got, r.next + 1)

\* broadcast::Sender::send: an error, and nothing stored, with no receiver.
SendOk == ReceiverCount > 0

Send(m) ==
    /\ sent' = IF SendOk THEN Append(sent, m) ELSE sent
    /\ srcPending' = (srcPending \/ (m = "SrcChanged" /\ SendOk))
    /\ reloadsSinceEnd' =
           IF m = "Reload" /\ SendOk THEN reloadsSinceEnd + 1
           ELSE reloadsSinceEnd

\* ------------------------------------------------------------------ Init
Returned == {"ret_ok", "ret_err"}

\* The process lives until main returns.
Alive == pc \notin Returned

BuildPcs == {"clean", "assets_update", "sass", "html_read", "wasm", "gen",
             "cargo_build"}

\* The state when main reaches its match on args.command.
Init ==
    /\ cmd \in Commands
    /\ csr \in BOOLEAN
    /\ pc = "main"
    /\ copy_assets = FALSE
    /\ outcome = "none"
    /\ SHUTDOWN = FALSE
    /\ sig = "waiting"
    /\ sent = <<>>
    /\ rx = NoRx
    /\ rxGot = <<>>
    /\ srv = FALSE
    /\ watching = FALSE
    /\ staticSrv = FALSE
    /\ artifacts = 0
    /\ events = 0
    /\ exits = 0
    /\ srcPending = FALSE
    /\ sawShutDown = FALSE
    /\ srcSeen = FALSE
    /\ reloadsSinceEnd = 0
    /\ ran = <<>>
    /\ cause = "none"

\* -------------------------------------------------------- interrupt task
\* The interrupt task without its write of the flag.
CtrlCNoFlag ==
    /\ Alive
    /\ sig = "waiting"
    /\ sig' = "flagged"
    /\ UNCHANGED <<runVars, cfgVars, pc, copy_assets, outcome, SHUTDOWN,
                   busVars, rxVars, srv, watching, staticSrv, artifacts,
                   events, exits, seenVars>>

\* ctrl_c() completes and the task sets the flag.
CtrlC ==
    /\ Alive
    /\ sig = "waiting"
    /\ SHUTDOWN' = TRUE
    /\ sig' = "flagged"
    /\ UNCHANGED <<runVars, cfgVars, pc, copy_assets, outcome, busVars, rxVars,
                   srv, watching, staticSrv, artifacts, events, exits,
                   seenVars>>

\* MSG_BUS.send(Msg::ShutDown).unwrap()
SigSend ==
    /\ Alive
    /\ sig = "flagged"
    /\ Send("ShutDown")
    /\ sig' = IF SendOk THEN "done" ELSE "panicked"
    /\ UNCHANGED <<runVars, cfgVars, pc, copy_assets, outcome, SHUTDOWN,
                   rxVars, srv, watching, staticSrv, artifacts, events, exits,
                   seenVars>>

\* ----------------------------------------------------- filesystem watcher
\* The watcher publishes one classified change.
WatcherPublish ==
    /\ Alive
    /\ watching
    /\ events < MaxEvents
    /\ \E m \in WatcherMsgs : Send(m)
    /\ events' = events + 1
    /\ UNCHANGED <<runVars, cfgVars, pc, copy_assets, outcome, SHUTDOWN, sig,
                   rxVars, srv, watching, staticSrv, artifacts, exits,
                   seenVars>>

\* A burst of style changes (an editor saving a stylesheet repeatedly).
WatcherBurst ==
    /\ Alive
    /\ watching
    /\ events < MaxBurst
    /\ Send("StyleChanged")
    /\ events' = events + 1
    /\ UNCHANGED <<runVars, cfgVars, pc, copy_assets, outcome, SHUTDOWN, sig,
                   rxVars, srv, watching, staticSrv, artifacts, exits,
                   seenVars>>

\* ------------------------------------------------------------- main task
\* What no step of the main task writes.
notMain == <<cmd, csr, SHUTDOWN, sig, events>>
\* What only the supervisor steps of the main task write.
procVars == <<watching, staticSrv, artifacts, exits>>

\* A step of the main task that only moves to position p.
Goto(p) ==
    /\ pc' = p
    /\ UNCHANGED <<runVars, notMain, procVars, copy_assets, outcome, busVars,
                   rxVars, srv, seenVars>>

\* The caller of build() has matched the returned value and goes on at
\* position p; the value is consumed by the match.
Matched(p) ==
    /\ pc' = p
    /\ ran' = <<>>
    /\ cause' = "none"
    /\ UNCHANGED <<notMain, procVars, copy_assets, outcome, busVars, rxVars,
                   srv, seenVars>>

\* The call build(config, ca): the run starts at its first stage.
StartBuild(ca) ==
    /\ pc' = "clean"
    /\ copy_assets' = ca
    /\ srcPending' = FALSE
    /\ ran' = <<>>
    /\ cause' = "none"
    /\ UNCHANGED <<notMain, procVars, outcome, sent, reloadsSinceEnd, rxVars,
                   srv, seenVars>>

\* The stage at the current position: generation writes an HTML file in csr
\* mode and Rust otherwise.
StageName ==
    IF pc = "gen" THEN (IF csr THEN "generate_html" ELSE "generate_rust")
    ELSE pc

\* The current stage has run and succeeded; build() goes on at position p.
Advance(p) ==
    /\ pc' = p
    /\ ran' = Append(ran, StageName)
    /\ UNCHANGED <<cause, notMain, procVars, copy_assets, outcome, busVars,
                   rxVars, srv, seenVars>>

\* The current stage has run and build() returns r to its caller: Err with
\* the error of that stage, or Ok.
BuildReturn(r) ==
    /\ pc' = "build_ret"
    /\ outcome' = r
    /\ ran' = Append(ran, StageName)
    /\ cause' = IF r = "Err" THEN StageName ELSE cause
    /\ reloadsSinceEnd' = 0
    /\ srcSeen' = FALSE
    /\ UNCHANGED <<notMain, procVars, copy_assets, sent, srcPending, rxVars,
                   srv, sawShutDown>>

\* A stage: on success on to position then, on failure the `?` makes
\* build() return the error.
Stage(then) ==
    \E ok \in BOOLEAN : IF ok THEN Advance(then) ELSE BuildReturn("Err")

\* match args.command
MainDispatch ==
    /\ pc = "main"
    /\ CASE cmd = "Build" -> StartBuild(TRUE)
         [] cmd = "Serve" -> Goto("serve")
         [] cmd = "Watch" -> Goto("watch_spawn")

\* Commands::Build: main returns what build returned.
MainBuildDone ==
    /\ pc = "build_ret"
    /\ cmd = "Build"
    /\ Matched(IF outcome = "Ok" THEN "ret_ok" ELSE "ret_err")

\* A clean whose error is noted and not propagated: the run goes on.
CleanIgnoresError ==
    /\ pc = "clean"
    /\ pc' = IF copy_assets THEN "assets_update" ELSE "sass"
    /\ ran' = Append(ran, StageName)
    /\ \E ok \in BOOLEAN : cause' = IF ok THEN cause ELSE StageName
    /\ UNCHANGED <<notMain, procVars, copy_assets, outcome, busVars, rxVars,
                   srv, seenVars>>

\* util::rm_dir_content("target/site/pkg")?
Clean ==
    /\ pc = "clean"
    /\ Stage(IF copy_assets THEN "assets_update" ELSE "sass")

\* assets::update(config)?
AssetsUpdate ==
    /\ pc = "assets_update"
    /\ Stage("sass")

\* sass::run(&config).await?
SassRun ==
    /\ pc = "sass"
    /\ Stage("html_read")

\* Html::read(&config.leptos.index_file)?
HtmlReadThenGenerate ==
    /\ pc = "html_read"
    /\ Stage("gen")

HtmlRead ==
    /\ pc = "html_read"
    /\ Stage("wasm")

\* wasm::build(&config).await?
WasmBuild ==
    /\ pc = "wasm"
    /\ Stage("gen")

\* html.generate_html / html.generate_rust, the last stage of build_client;
\* in csr mode build() then returns Ok.
Generate ==
    /\ pc = "gen"
    /\ \E ok \in BOOLEAN :
          IF ~ok THEN BuildReturn("Err")
          ELSE IF csr THEN BuildReturn("Ok")
          ELSE Advance("cargo_build")

\* cargo::build(&config, false).await?, then Ok(())
CargoBuild ==
    /\ pc = "cargo_build"
    /\ \E ok \in BOOLEAN : BuildReturn(IF ok THEN "Ok" ELSE "Err")

\* serve: build(&config, true).await?
ServeBuild ==
    /\ pc = "serve"
    /\ StartBuild(TRUE)

\* serve: the `?` on the build, then the choice of what to serve.
ServeMatch ==
    /\ pc = "build_ret"
    /\ cmd = "Serve"
    /\ Matched(IF outcome = "Err" THEN "ret_err"
               ELSE IF csr THEN "static_spawn" ELSE "cargo_spawn")

\* serve: cargo::run(&config).await is what serve returns.
ServeRunReturned ==
    /\ pc \in {"run_ok", "run_err"}
    /\ cmd = "Serve"
    /\ Goto(IF pc = "run_ok" THEN "ret_ok" ELSE "ret_err")

\* ------------------------------------------------------------------ watch
\* A watch that goes on without a watcher when watch::spawn fails.
WatchSpawnFallback ==
    /\ pc = "watch_spawn"
    /\ \E ok \in BOOLEAN : watching' = ok
    /\ pc' = "assets_spawn"
    /\ UNCHANGED <<runVars, notMain, staticSrv, artifacts, exits, copy_assets,
                   outcome, busVars, rxVars, srv, seenVars>>

\* watch::spawn(config).await?
WatchSpawn ==
    /\ pc = "watch_spawn"
    /\ \E ok \in BOOLEAN :
          /\ watching' = ok
          /\ pc' = IF ok THEN "assets_spawn" ELSE "ret_err"
    /\ UNCHANGED <<runVars, notMain, staticSrv, artifacts, exits, copy_assets,
                   outcome, busVars, rxVars, srv, seenVars>>

\* if let Some(assets_dir) = ... { assets::spawn(assets_dir).await? }
AssetsSpawn ==
    /\ pc = "assets_spawn"
    /\ \E some \in BOOLEAN, ok \in BOOLEAN :
          Goto(IF some /\ ~ok THEN "ret_err" ELSE "serve_spawn")

\* if config.cli.csr { serve::spawn(&config).await; }
ServeSpawn ==
    /\ pc = "serve_spawn"
    /\ pc' = "reload_spawn"
    /\ staticSrv' = csr
    /\ UNCHANGED <<runVars, notMain, watching, artifacts, exits, copy_assets,
                   outcome, busVars, rxVars, srv, seenVars>>

\* reload::spawn(&config).await: the reload server subscribes to the bus.
ReloadSpawn ==
    /\ pc = "reload_spawn"
    /\ pc' = "loop"
    /\ srv' = TRUE
    /\ UNCHANGED <<runVars, notMain, procVars, copy_assets, outcome, busVars,
                   rxVars, seenVars>>

\* A loop that calls build(config, true).
LoopBuildCopiesAssets ==
    /\ pc = "loop"
    /\ StartBuild(TRUE)

\* loop { match build(config, false).await {
LoopBuild ==
    /\ pc = "loop"
    /\ StartBuild(FALSE)

\* A match that calls send_reload in the Err arm as well.
WatchMatchReloadAlways ==
    /\ pc = "build_ret"
    /\ cmd = "Watch"
    /\ Matched("reload_read")

\* The arms of the match: Ok(_) calls send_reload, Err(e) logs and suspends.
WatchMatch ==
    /\ pc = "build_ret"
    /\ cmd = "Watch"
    /\ Matched(IF outcome = "Ok" THEN "reload_read" ELSE "err_sub")

\* send_reload: if !*SHUTDOWN.read().await
ReloadRead ==
    /\ pc = "reload_read"
    /\ Goto(IF ~SHUTDOWN THEN "reload_send" ELSE "after_reload")

\* A send_reload that publishes the notification a second time.
ReloadSendTwice ==
    /\ pc = "reload_send"
    /\ Send("Reload")
    /\ pc' = IF reloadsSinceEnd = 0 THEN "reload_send" ELSE "after_reload"
    /\ UNCHANGED <<runVars, notMain, procVars, copy_assets, outcome, rxVars,
                   srv, seenVars>>

\* send_reload: MSG_BUS.send(Msg::Reload(..)); an error is logged.
ReloadSend ==
    /\ pc = "reload_send"
    /\ Send("Reload")
    /\ pc' = "after_reload"
    /\ UNCHANGED <<runVars, notMain, procVars, copy_assets, outcome, rxVars,
                   srv, seenVars>>

\* A loop that launches cargo::run without awaiting it.
AfterReloadDetached ==
    /\ pc = "after_reload"
    /\ pc' = IF csr THEN "wait_sub" ELSE "check_shutdown"
    /\ artifacts' = IF csr THEN artifacts ELSE artifacts + 1
    /\ UNCHANGED <<runVars, notMain, watching, staticSrv, exits, copy_assets,
                   outcome, busVars, rxVars, srv, seenVars>>

\* if config.cli.csr { wait_for(..).await } else { cargo::run(..).await? }
AfterReload ==
    /\ pc = "after_reload"
    /\ Goto(IF csr THEN "wait_sub" ELSE "cargo_spawn")

\* watch: the `?` on cargo::run.
WatchRunReturned ==
    /\ pc \in {"run_ok", "run_err"}
    /\ cmd = "Watch"
    /\ Goto(IF pc = "run_ok" THEN "check_shutdown" ELSE "ret_err")

\* A check that consumes the flag when it breaks.
CheckShutdownClears ==
    /\ pc = "check_shutdown"
    /\ pc' = IF SHUTDOWN THEN "ret_ok" ELSE "loop"
    /\ SHUTDOWN' = FALSE
    /\ UNCHANGED <<runVars, cfgVars, sig, events, procVars, copy_assets,
                   outcome, busVars, rxVars, srv, seenVars>>

\* if *SHUTDOWN.read().await { break } else { log "rebuilding" }
CheckShutdown ==
    /\ pc = "check_shutdown"
    /\ Goto(IF SHUTDOWN THEN "ret_ok" ELSE "loop")

\* Err arm: MSG_BUS.subscribe(), a fresh receiver at each turn of the while.
ErrSubscribe ==
    /\ pc = "err_sub"
    /\ pc' = "err_recv"
    /\ rx' = Subscribe
    /\ rxGot' = <<>>
    /\ UNCHANGED <<runVars, notMain, procVars, copy_assets, outcome, busVars,
                   srv, seenVars>>

\* Err arm: .recv().await on that receiver.
ErrRecv ==
    /\ pc = "err_recv"
    /\ Ready(rx)
    /\ pc' = "err_cmp"
    /\ rx' = Recv(rx)
    /\ rxGot' = Got(rx, rxGot)
    /\ sawShutDown' = (sawShutDown \/ RecvResult(rx) = "ShutDown")
    /\ srcSeen' = (srcSeen \/ RecvResult(rx) = "SrcChanged")
    /\ UNCHANGED <<runVars, notMain, procVars, copy_assets, outcome, busVars,
                   srv>>

\* An Err arm that leaves its wait on any message.
ErrCompareAny ==
    /\ pc = "err_cmp"
    /\ pc' = IF rx.lagged THEN "ret_err" ELSE "loop"
    /\ rx' = NoRx
    /\ rxGot' = <<>>
    /\ UNCHANGED <<runVars, notMain, procVars, copy_assets, outcome, busVars,
                   srv, seenVars>>

\* Err arm: the `?` and `!= Msg::SrcChanged` on what recv returned; the
\* receiver is a temporary, dropped once the condition is evaluated.
ErrCompare ==
    /\ pc = "err_cmp"
    /\ pc' = CASE rx.lagged -> "ret_err"
               [] ~rx.lagged /\ sent[rx.next] = "SrcChanged" -> "loop"
               [] OTHER -> "err_sub"
    /\ rx' = NoRx
    /\ rxGot' = <<>>
    /\ UNCHANGED <<runVars, notMain, procVars, copy_assets, outcome, busVars,
                   srv, seenVars>>

\* ------------------------------------------- collaborators of the watch loop
\* The messages that interrupt a wait or a running server process.
Interrupts == {"SrcChanged", "ShutDown"}

\* util::wait_for(&[Msg::SrcChanged, Msg::ShutDown]): it takes no receiver,
\* so it subscribes when it is called.
WaitForSubscribe ==
    /\ pc = "wait_sub"
    /\ pc' = "wait_recv"
    /\ rx' = Subscribe
    /\ rxGot' = <<>>
    /\ UNCHANGED <<runVars, notMain, procVars, copy_assets, outcome, busVars,
                   srv, seenVars>>

\* util::wait_for: blocks until one of the awaited events arrives.
WaitForRecv ==
    /\ pc = "wait_recv"
    /\ Ready(rx)
    /\ sawShutDown' = (sawShutDown \/ RecvResult(rx) = "ShutDown")
    /\ srcSeen' = (srcSeen \/ RecvResult(rx) = "SrcChanged")
    /\ IF RecvResult(rx) \in Interrupts
       THEN pc' = "check_shutdown" /\ rx' = NoRx /\ rxGot' = <<>>
       ELSE pc' = pc /\ rx' = Recv(rx) /\ rxGot' = Got(rx, rxGot)
    /\ UNCHANGED <<runVars, notMain, procVars, copy_assets, outcome, busVars,
                   srv>>

\* cargo::run: launches the compiled server process (or fails to).
CargoRunSpawn ==
    /\ pc = "cargo_spawn"
    /\ \E ok \in BOOLEAN :
          IF ok
          THEN /\ pc' = "cargo_wait"
               /\ artifacts' = artifacts + 1
               /\ rx' = Subscribe
          ELSE /\ pc' = "run_err"
               /\ UNCHANGED <<artifacts, rx>>
    /\ rxGot' = <<>>
    /\ UNCHANGED <<runVars, notMain, watching, staticSrv, exits, copy_assets,
                   outcome, busVars, srv, seenVars>>

\* cargo::run: an interrupt on the bus stops the process, then run returns.
CargoRunRecv ==
    /\ pc = "cargo_wait"
    /\ Ready(rx)
    /\ sawShutDown' = (sawShutDown \/ RecvResult(rx) = "ShutDown")
    /\ srcSeen' = (srcSeen \/ RecvResult(rx) = "SrcChanged")
    /\ IF RecvResult(rx) \in Interrupts
       THEN /\ pc' = "run_ok"
            /\ rx' = NoRx
            /\ rxGot' = <<>>
            /\ artifacts' = artifacts - 1
       ELSE /\ pc' = pc
            /\ rx' = Recv(rx)
            /\ rxGot' = Got(rx, rxGot)
            /\ UNCHANGED artifacts
    /\ UNCHANGED <<runVars, notMain, watching, staticSrv, exits, copy_assets,
                   outcome, busVars, srv>>

\* cargo::run: the server process ends on its own, with or without an error.
CargoRunExit ==
    /\ pc = "cargo_wait"
    /\ exits < MaxExits
    /\ exits' = exits + 1
    /\ artifacts' = artifacts - 1
    /\ rx' = NoRx
    /\ rxGot' = <<>>
    /\ \E ok \in BOOLEAN : pc' = IF ok THEN "run_ok" ELSE "run_err"
    /\ UNCHANGED <<runVars, notMain, watching, staticSrv, copy_assets, outcome,
                   busVars, srv, seenVars>>

\* serve::spawn(&config).await in serve: the static server starts.
StaticSpawn ==
    /\ pc = "static_spawn"
    /\ pc' = "static_wait"
    /\ staticSrv' = TRUE
    /\ UNCHANGED <<runVars, notMain, watching, artifacts, exits, copy_assets,
                   outcome, busVars, rxVars, srv, seenVars>>

\* .await? on the static server's handle: it ends, with or without an error.
StaticEnd ==
    /\ pc = "static_wait"
    /\ staticSrv' = FALSE
    /\ \E ok \in BOOLEAN : pc' = IF ok THEN "ret_ok" ELSE "ret_err"
    /\ UNCHANGED <<runVars, notMain, watching, artifacts, exits, copy_assets,
                   outcome, busVars, rxVars, srv, seenVars>>

\* ------------------------------------------------------- specifications
\* The steps of build() and build_client().
Pipeline ==
    \/ Clean \/ AssetsUpdate \/ SassRun \/ HtmlRead \/ WasmBuild
    \/ Generate \/ CargoBuild

\* The steps the main task takes by itself.
MainTask ==
    \/ MainDispatch \/ MainBuildDone \/ Pipeline
    \/ ServeBuild \/ ServeMatch \/ ServeRunReturned \/ StaticSpawn
    \/ WatchSpawn \/ AssetsSpawn \/ ServeSpawn \/ ReloadSpawn
    \/ LoopBuild \/ WatchMatch \/ ReloadRead \/ ReloadSend \/ AfterReload
    \/ WatchRunReturned \/ CheckShutdown
    \/ ErrSubscribe \/ ErrRecv \/ ErrCompare
    \/ WaitForSubscribe \/ WaitForRecv \/ CargoRunSpawn \/ CargoRunRecv

\* What the served artifact does by itself.
Served == CargoRunExit \/ StaticEnd

Next == MainTask \/ Served \/ CtrlC \/ SigSend \/ WatcherPublish

Spec == Init /\ [][Next]_vars

\* The runtime schedules every task that can run; the user, the watcher and
\* the served artifact owe nothing.
Fairness == WF_vars(MainTask) /\ WF_vars(SigSend)

FairSpec == Spec /\ Fairness

NextBurst == MainTask \/ Served \/ CtrlC \/ SigSend \/ WatcherBurst

BurstSpec == Init /\ [][NextBurst]_vars

\* ------------------------------------------------------------ properties
\* ShutDown has been accepted by the bus.
ShutDownSent == \E i \in 1..Len(sent) : sent[i] = "ShutDown"

\* C2: once the flag is true and the loop has received ShutDown from the
\* bus, the watch loop is in no stage of a pipeline run.
C2_ShutDownTerminal ==
    (cmd = "Watch" /\ SHUTDOWN /\ sawShutDown) => pc \notin BuildPcs

\* C3: from the end of a failed run to the start of the next run no Reload
\* is published.
C3_NoReloadAfterFailure ==
    (cmd = "Watch" /\ outcome = "Err" /\ pc \notin BuildPcs)
        => reloadsSinceEnd = 0

\* A failed run has ended, the loop is suspended, and an earlier run had
\* published its Reload.
C3_Witness ==
    /\ cmd = "Watch" /\ outcome = "Err" /\ pc = "err_cmp"
    /\ \E i \in 1..Len(sent) : sent[i] = "Reload"

\* C4: after a failed run the watch loop is at the top of the loop or in a
\* stage of a new run only if it has received SrcChanged since that run ended.
C4_SuspendedUntilSrcChanged ==
    (cmd = "Watch" /\ outcome = "Err" /\ pc \in BuildPcs \cup {"loop"})
        => srcSeen

\* A new run starts after a failure, the suspended loop having received
\* ShutDown and then SrcChanged.
C4_Witness ==
    /\ cmd = "Watch" /\ outcome = "Err" /\ pc = "clean"
    /\ sawShutDown /\ srcSeen

\* C7: in full-stack watch mode at most one server process runs, and none
\* runs while the loop is between cargo::run calls or in a pipeline run.
C7_OneArtifact ==
    (cmd = "Watch" /\ ~csr) =>
        /\ artifacts <= 1
        /\ pc \in BuildPcs \cup {"loop", "check_shutdown"} => artifacts = 0

\* A pipeline run started after a server process had been launched and
\* stopped by SrcChanged.
C7_Witness ==
    /\ cmd = "Watch" /\ ~csr /\ pc = "clean"
    /\ outcome = "Ok" /\ srcSeen /\ artifacts = 0

\* C8: whenever ShutDown is on the bus or has been received, the flag is true.
C8_FlagBeforeShutDown == (ShutDownSent \/ sawShutDown) => SHUTDOWN

\* The main task has received ShutDown from the bus.
C8_Witness == sawShutDown /\ SHUTDOWN

\* C9: no step takes the flag from true to false.
C9_FlagStaysTrue == [][SHUTDOWN => SHUTDOWN']_vars

\* The flag was set, ShutDown published, and the loop read the flag and broke.
C9_Witness == cmd = "Watch" /\ SHUTDOWN /\ sig = "done" /\ pc = "ret_ok"

\* C10: after a failed run, watch has not returned an error.
C10_StageFailureRecoverable ==
    (cmd = "Watch" /\ outcome = "Err") => pc # "ret_err"

\* The positions start+1 .. next, each once and in order.
Contiguous(r) == [i \in 1..(r.next - r.start) |-> r.start + i]

C1_ShutDownExits ==
    (cmd = "Watch" /\ SHUTDOWN /\ sig = "done") ~> (pc \in Returned)

\* C5: in watch mode with the flag unset, a published SrcChanged is
\* eventually followed by the start of a pipeline run (unless the flag is
\* set or watch returns first).
C5_SrcChangedRebuilds ==
    (cmd = "Watch" /\ srcPending /\ ~SHUTDOWN)
        ~> (~srcPending \/ SHUTDOWN \/ pc \in Returned)

\* C11: the interrupt task's publish never panics the task.
C11_SendErrorNonFatal == sig # "panicked"

\* C20: on the bus no Reload comes after ShutDown.
C20_NoReloadAfterShutDown ==
    \A i \in 1..Len(sent) : \A j \in 1..Len(sent) :
        (sent[i] = "ShutDown" /\ i < j) => sent[j] # "Reload"

\* The stages that compile code, and the stages that generate the artifact.
CodeCompile == {"wasm", "cargo_build"}
Generation == {"generate_html", "generate_rust"}

\* The order in which build() and build_client() name the stages.
StageOrder ==
    <<"clean", "assets_update", "sass", "html_read", "wasm", "generate_html",
      "generate_rust", "cargo_build">>

\* The place of stage s in StageOrder.
Rank(s) == CHOOSE i \in 1..Len(StageOrder) : StageOrder[i] = s

\* C12 as stated: in a run no code-compile stage (WASM build or server
\* compile) is invoked after the generation stage of that run.
C12_NoCompileAfterGeneration ==
    \A i \in 1..Len(ran) : \A j \in 1..Len(ran) :
        (ran[i] \in Generation /\ i < j) => ran[j] \notin CodeCompile

\* C12, amended: the stages of a run are invoked in the order clean, asset
\* sync, style compile, index read, WASM build, generation, server compile;
\* generation comes only after the WASM build, and a client-only run invokes
\* no code-compile stage after generation.  In full-stack mode the server
\* compile is the last stage, after Rust generation.
C12_StageOrder ==
    /\ \A i \in 1..Len(ran) : \A j \in 1..Len(ran) :
           i < j => Rank(ran[i]) < Rank(ran[j])
    /\ \A j \in 1..Len(ran) :
           ran[j] \in Generation => \E i \in 1..(j - 1) : ran[i] = "wasm"
    /\ csr => C12_NoCompileAfterGeneration

\* A full-stack run whose server compile came after its Rust generation.
C12_Witness ==
    /\ pc = "build_ret"
    /\ ~csr
    /\ outcome = "Ok"
    /\ \E i \in 1..Len(ran) : \E j \in 1..Len(ran) :
           i < j /\ ran[i] = "generate_rust" /\ ran[j] = "cargo_build"

\* The artifact is being served: by the static bundle server or by a
\* compiled server process.
Serving == staticSrv \/ artifacts > 0

\* C13: serving is up only when a build pipeline run has completed (the
\* claim asks more: that the first run completed with Success).
C13_BuildBeforeServing == Serving => outcome # "none"

\* The loop is suspended on a failed run and a SrcChanged published since
\* it subscribed is waiting, unread, in its receiver.
SrcQueued ==
    /\ pc \in {"err_recv", "err_cmp"}
    /\ rx.live
    /\ \E i \in (rx.next + 1)..Len(sent) : sent[i] = "SrcChanged"

\* C14: a SrcChanged published while the loop is suspended on a failed run,
\* with the flag unset, is eventually followed by a new pipeline run starting
\* at its first stage (unless the flag is set or watch returns first),
\* whatever other events were published just before it.
C14_SuspendedRetries ==
    (cmd = "Watch" /\ SrcQueued /\ ~SHUTDOWN)
        ~> (pc = "clean" \/ SHUTDOWN \/ pc \in Returned)

\* C15: in watch mode, when cargo::run has returned an error and the flag
\* is not set, the loop does not end: watch does not return.
C15_RunErrorRebuilds ==
    [][(cmd = "Watch" /\ pc = "run_err" /\ ~SHUTDOWN') => pc' # "ret_err"]_vars

\* The positions of the watch loop between send_reload and the end of the
\* cycle: launching the server process or waiting for the next change.
PostReload ==
    {"after_reload", "wait_sub", "wait_recv", "cargo_spawn", "cargo_wait",
     "run_ok", "run_err", "check_shutdown"}

\* C16: in watch mode a cycle publishes no Reload before send_reload and at
\* most one in all; once send_reload is done, with the flag unset, exactly
\* one has been published, and none is added during the launch or the wait.
C16_OneReloadBeforeLaunch ==
    cmd = "Watch" =>
        /\ reloadsSinceEnd <= 1
        /\ pc \in {"build_ret", "reload_read", "reload_send"}
               => reloadsSinceEnd = 0
        /\ (pc \in PostReload /\ ~SHUTDOWN) => reloadsSinceEnd = 1

\* The server process of a cycle is running, the flag is unset, and the
\* cycle's one Reload was published before the launch.
C16_Witness ==
    /\ cmd = "Watch" /\ pc = "cargo_wait" /\ ~SHUTDOWN
    /\ artifacts = 1
    /\ reloadsSinceEnd = 1

\* The stages build(config, ca) invokes when none fails, with csr = c.
Active(ca, c) ==
    <<"clean">> \o (IF ca THEN <<"assets_update">> ELSE <<>>)
        \o <<"sass", "html_read", "wasm">>
        \o (IF c THEN <<"generate_html">>
                  ELSE <<"generate_rust", "cargo_build">>)

\* A pipeline run is in progress or has just returned to its caller.
InRun == pc \in BuildPcs \cup {"build_ret"}

\* C17: while a run goes on no stage has reported failure; a run that
\* returns Err returns the error of the last stage it invoked, and invoked
\* no stage after it; a run that returns Ok invoked every active stage and
\* none reported failure; a run returns either Ok or Err.
C17_FailureStopsRun ==
    InRun =>
        /\ ran = SubSeq(Active(copy_assets, csr), 1, Len(ran))
        /\ pc \in BuildPcs => cause = "none"
        /\ pc = "build_ret" => outcome \in {"Ok", "Err"}
        /\ (pc = "build_ret" /\ outcome = "Err")
               => (Len(ran) > 0 /\ cause = ran[Len(ran)])
        /\ (pc = "build_ret" /\ outcome = "Ok")
               => (cause = "none" /\ Len(ran) = Len(Active(copy_assets, csr)))

\* A run stopped by a failing WASM build: generation was not invoked.
C17_Witness ==
    /\ pc = "build_ret" /\ outcome = "Err"
    /\ cause = "wasm"
    /\ \A i \in 1..Len(ran) : ran[i] \notin Generation

\* C18: a run that returns Ok has invoked exactly the stages of
\* Active(copy_assets, csr), and copy_assets is true in the runs of the
\* build and serve commands and false in every run of the watch loop.
C18_StagesPerMode ==
    /\ (pc = "build_ret" /\ outcome = "Ok")
           => ran = Active(copy_assets, csr)
    /\ InRun => (copy_assets <=> cmd \in {"Build", "Serve"})

\* A later run of the client-only watch loop has succeeded: no asset sync,
\* HTML generation, no server compile.
C18_Witness ==
    /\ cmd = "Watch" /\ csr /\ pc = "build_ret" /\ outcome = "Ok"
    /\ Len(sent) > 0
    /\ ran = <<"clean", "sass", "html_read", "wasm", "generate_html">>

\* Nothing of watch mode beyond the watcher setup has happened: no pipeline
\* run has started or returned, no server is up, nothing was served.
NothingStarted ==
    /\ outcome = "none"
    /\ ran = <<>>
    /\ ~srv
    /\ ~staticSrv
    /\ artifacts = 0

\* C19: in watch mode, without an established filesystem watcher the main
\* task is before watch::spawn or has returned the error, and nothing was
\* started; and a watch that returned an error before any pipeline run (the
\* watcher or the asset watcher failed) started nothing either.
C19_NoWatcherNoWatch ==
    cmd = "Watch" =>
        /\ ~watching => (pc \in {"main", "watch_spawn", "ret_err"}
                            /\ NothingStarted)
        /\ pc \in {"watch_spawn", "assets_spawn"} => NothingStarted
        /\ (pc = "ret_err" /\ outcome = "none") => NothingStarted

\* watch::spawn failed and watch has returned the error.
C19_Witness ==
    /\ cmd = "Watch" /\ pc = "ret_err" /\ ~watching
    /\ NothingStarted

====
